---------------------------- MODULE Spec2Model ----------------------------
(***************************************************************************)
(* The 2-D wave-equation solver of Project/ (serial, unit-test, OpenMP and *)
(* MPI drivers) and the non-blocking halo exchange of Assignment-III/Ex3.  *)
(*                                                                         *)
(* Numbers.  Field values are reals in the code.  Here they are exact      *)
(* dyadic rationals, stored as integers in units of 2^-MaxSteps: with      *)
(* fac = dt*dt*c*c/(dx*dx) = 1/2 (dt = (sqrt 2 / 2)*dx/c) every value of   *)
(* the first MaxSteps steps is such a number when the source is a multiple *)
(* of Unit, so every division by FacDen below is exact.  Rounding of the   *)
(* doubles is not modelled.                                                *)
(* Time.  t is the number of dt steps taken (t = k*dt); the loop test      *)
(* t < tEnd is the exact comparison k*dt < tEnd, squared.                  *)
(* Source.  sin(20*pi*t) and sin(pi*x)^2 cannot be computed here; they are *)
(* replaced by integer tables with the same zeros and signs (SinTime,      *)
(* SinSqX).                                                                *)
(***************************************************************************)
EXTENDS Integers, Sequences, FiniteSets, TLC

VARIABLES
    N,        \* grid size (256 in the sources; drawn from 1..MaxN here)
    xlin,     \* coordinates, in units of dx/2
    mask,     \* std::vector<std::vector<bool>> mask
    U,        \* current field
    Uprev,    \* previous field
    Unew,     \* next field
    t,        \* time, in units of dt
    pc,       \* position of main
    size,     \* MPI_Comm_size
    rank,     \* MPI_Comm_rank (MPI driver: the one worker modelled)
    pending,  \* OpenMP: iterations of the parallel loop not yet executed
    threads,  \* OpenMP: omp_set_num_threads argument
    nxc,      \* halo exchange: number of cells (global)
    f,        \* halo exchange: f[r] is rank r's array f
    dfdx,     \* halo exchange: dfdx[r] is rank r's array dfdx
    requests, \* halo exchange: requests[r][q], state of rank r's request q
    net,      \* halo exchange: messages sent and not yet received
    ppc,      \* halo exchange: ppc[r], position of rank r's main
    prevRank, \* halo exchange: prevRank[r], the variable assigned on line 40
    nextRank  \* halo exchange: nextRank[r], the variable assigned on line 42

vars == <<N, xlin, mask, U, Uprev, Unew, t, pc, size, rank, pending, threads,
          nxc, f, dfdx, requests, net, ppc, prevRank, nextRank>>

gridVars == <<N, xlin, mask, U, Uprev, Unew, t, pc>>
mpiVars  == <<size, rank>>
ompVars  == <<pending, threads>>
ptpVars  == <<nxc, f, dfdx, requests, net, ppc, prevRank, nextRank>>

----------------------------------------------------------------------------
(* Bounds of the model *)
MaxN == 15
MaxSteps == 6
MaxSize == 3
MaxOmpN == 4
MaxOmpSteps == 3
MaxPtpSize == 3
MaxNxc == 2

(* Program constants *)
boxsize == 1
c == 1
tEnd == 2
FacNum == 1
FacDen == 2

RECURSIVE Pow2(_)
Pow2(k) == IF k = 0 THEN 1 ELSE 2 * Pow2(k - 1)

Unit == Pow2(MaxSteps)

Min(a, b) == IF a < b THEN a ELSE b

Idle == <<>>

----------------------------------------------------------------------------
(* Grid construction *)

Rows(n) == 0 .. (n - 1)

ZeroField(rows, cols) == [i \in Rows(rows) |-> [j \in Rows(cols) |-> 0]]
FalseMask(rows, cols) == [i \in Rows(rows) |-> [j \in Rows(cols) |-> FALSE]]

\* xlin[i] = 0.5*dx + i*dx, in units of dx/2
Xlin(n) == [i \in Rows(n) |-> 1 + 2 * i]

\* for (i = 0; i < N; ++i) mask[0][i] = mask[N-1][i] = mask[i][0] = mask[i][N-1] = true
EdgePass(m, n) ==
    [i \in Rows(n) |-> [j \in Rows(n) |->
        IF i = 0 \/ i = n - 1 \/ j = 0 \/ j = n - 1 THEN TRUE ELSE m[i][j]]]

BarrierRows(n) == { i \in Rows(n) : n \div 4 <= i /\ i < (9 * n) \div 32 }
BarrierCols(n) == { j \in Rows(n) : j < n - 1 }

\* for (i = N/4; i < 9*N/32; ++i) for (j = 0; j < N-1; ++j) mask[i][j] = true
BarrierPass(m, n) ==
    [i \in Rows(n) |-> [j \in Rows(n) |->
        IF i \in BarrierRows(n) /\ j \in BarrierCols(n) THEN TRUE ELSE m[i][j]]]

SlitRowsWide(n) == Rows(n)
SlitRows(n) == { i \in Rows(n) : 1 <= i /\ i < n - 1 }

SlitColsInclusive(n) ==
    { j \in Rows(n) : \/ (5 * n) \div 16 <= j /\ j <= (3 * n) \div 8
                      \/ (5 * n) \div 8 <= j /\ j <= (11 * n) \div 16 }
SlitCols(n) ==
    { j \in Rows(n) : \/ (5 * n) \div 16 <= j /\ j < (3 * n) \div 8
                      \/ (5 * n) \div 8 <= j /\ j < (11 * n) \div 16 }

\* mask[i][j] = !mask[i][j] in the slits
SlitPassToggle(m, n) ==
    [i \in Rows(n) |-> [j \in Rows(n) |->
        IF i \in SlitRows(n) /\ j \in SlitCols(n) THEN ~m[i][j] ELSE m[i][j]]]

\* for (i = 1; i < N-1; ++i) { two column ranges: mask[i][j] = false }
SlitPass(m, n) ==
    [i \in Rows(n) |-> [j \in Rows(n) |->
        IF i \in SlitRows(n) /\ j \in SlitCols(n) THEN FALSE ELSE m[i][j]]]

\* the mask part of initializeGrid, applied to the mask m it is handed
initializeGrid(m, n) == SlitPass(BarrierPass(EdgePass(m, n), n), n)

----------------------------------------------------------------------------
(* Boundary conditions and source *)

\* stands for sin(20*pi*t) at t = k*dt: zero at k = 0 only, changing sign
SinTime(k) ==
    IF k = 0 THEN 0
    ELSE IF ((k - 1) \div 3) % 2 = 0 THEN ((k - 1) % 3) + 1
    ELSE 0 - (((k - 1) % 3) + 1)

\* stands for sin(pi*x)^2 at x = xl*dx/2, 0 < xl < 2n: positive, symmetric
SinSqX(xl, n) == Min(xl, 2 * n - xl)

SourceValue(k, xl, n) == Unit * SinTime(k) * SinSqX(xl, n)

\* if (mask[i][0] || mask[i][N-1] || mask[0][i] || mask[N-1][i])
ZeroWhen(m, n, i) == m[i][0] \/ m[i][n - 1] \/ m[0][i] \/ m[n - 1][i]

ZeroEdgesRowsOnly(u, m, n) ==
    [i \in Rows(n) |-> [j \in Rows(n) |->
        IF (i = 0 \/ i = n - 1) /\ ZeroWhen(m, n, j) THEN 0 ELSE u[i][j]]]
\* first loop of applyBoundaryConditions: the cells written by iteration i
\* are (i,0), (i,N-1), (0,i), (N-1,i)
ZeroEdges(u, m, n) ==
    [i \in Rows(n) |-> [j \in Rows(n) |->
        IF \/ (j = 0 \/ j = n - 1) /\ ZeroWhen(m, n, i)
           \/ (i = 0 \/ i = n - 1) /\ ZeroWhen(m, n, j)
        THEN 0 ELSE u[i][j]]]

\* second loop: U[0][i] = sin(20 pi t) * sin(pi xlin[i])^2
SourceRow(u, k, xl, n) ==
    [i \in Rows(n) |-> [j \in Rows(n) |->
        IF i = 0 THEN SourceValue(k, xl[j], n) ELSE u[i][j]]]

applyBoundaryConditions(u, m, k, xl, n) == SourceRow(ZeroEdges(u, m, n), k, xl, n)

----------------------------------------------------------------------------
(* Stencil *)

Interior(n) == { i \in Rows(n) : 1 <= i /\ i < n - 1 }

Laplacian(u, i, j) ==
    u[i - 1][j] + u[i + 1][j] + u[i][j - 1] + u[i][j + 1] - 4 * u[i][j]

Fac(x) == (FacNum * x) \div FacDen

\* Unew[i][j] = 2.0 * U[i][j] - U[i][j] + fac * laplacian
SerialCell(u, i, j) == 2 * u[i][j] - u[i][j] + Fac(Laplacian(u, i, j))

\* the update without its  if (!mask[i][j])
updateLaplacianIgnoringMask(u, unew, m, n) ==
    [i \in Rows(n) |-> [j \in Rows(n) |->
        IF i \in Interior(n) /\ j \in Interior(n)
        THEN SerialCell(u, i, j) ELSE unew[i][j]]]

updateLaplacian(u, unew, m, n) ==
    [i \in Rows(n) |-> [j \in Rows(n) |->
        IF i \in Interior(n) /\ j \in Interior(n) /\ ~m[i][j]
        THEN SerialCell(u, i, j) ELSE unew[i][j]]]

\* the stencil of the MPI driver, on a local field of rows x n cells
\* Unew[i][j] = 2.0 * U[i][j] - Uprev[i][j] + fac * laplacian
LeapfrogCell(u, uprev, i, j) == 2 * u[i][j] - uprev[i][j] + Fac(Laplacian(u, i, j))

calculateLaplacian(u, uprev, m, unew, rows, n) ==
    [i \in Rows(rows) |-> [j \in Rows(n) |->
        IF i \in Interior(rows) /\ j \in Interior(n) /\ ~m[i][j]
        THEN LeapfrogCell(u, uprev, i, j) ELSE unew[i][j]]]

----------------------------------------------------------------------------
(* Serial driver: Project/serial/main.cpp, Project/unitTests/main.cpp *)

\* while (t + dt < tEnd)
LoopCondOneEarly(k, n) ==
    2 * (k + 1) * (k + 1) * boxsize * boxsize < 4 * n * n * c * c * tEnd * tEnd
\* while (t < tEnd), t = k*dt, dt = (sqrt 2 / 2) * (boxsize / N) / c
LoopCond(k, n) == 2 * k * k * boxsize * boxsize < 4 * n * n * c * c * tEnd * tEnd

NextPcAdvanceFirst(p) ==
    CASE p = "update" -> "roll"
      [] p = "roll" -> "advance"
      [] p = "advance" -> "bc"
      [] p = "bc" -> "while"
\* the order of the statements of the loop body
NextPc(p) ==
    CASE p = "update" -> "roll"
      [] p = "roll" -> "bc"
      [] p = "bc" -> "advance"
      [] p = "advance" -> "while"

IdleMpi == size = 0 /\ rank = 0
IdleOmp == pending = {} /\ threads = 0
IdlePtp == /\ nxc = 0 /\ f = Idle /\ dfdx = Idle /\ requests = Idle /\ net = {}
           /\ ppc = Idle /\ prevRank = Idle /\ nextRank = Idle

InitSerial ==
    /\ N \in 1 .. MaxN
    /\ xlin = [i \in Rows(N) |-> 0]
    /\ mask = FalseMask(N, N)
    /\ U = ZeroField(N, N)
    /\ Uprev = ZeroField(N, N)
    /\ Unew = ZeroField(N, N)
    /\ t = 0
    /\ pc = "init"
    /\ IdleMpi /\ IdleOmp /\ IdlePtp

SerialInitializeGrid ==
    /\ pc = "init"
    /\ xlin' = Xlin(N)
    /\ mask' = initializeGrid(mask, N)
    /\ pc' = "while"
    /\ UNCHANGED <<N, U, Uprev, Unew, t>>
    /\ UNCHANGED <<mpiVars, ompVars, ptpVars>>

SerialWhile ==
    /\ pc = "while"
    /\ LoopCond(t, N) => t < MaxSteps
    /\ pc' = IF LoopCond(t, N) THEN "update" ELSE "done"
    /\ UNCHANGED <<N, xlin, mask, U, Uprev, Unew, t>>
    /\ UNCHANGED <<mpiVars, ompVars, ptpVars>>

SerialUpdate ==
    /\ pc = "update"
    /\ Unew' = updateLaplacian(U, Unew, mask, N)
    /\ pc' = NextPc(pc)
    /\ UNCHANGED <<N, xlin, mask, U, Uprev, t>>
    /\ UNCHANGED <<mpiVars, ompVars, ptpVars>>

SerialRoll ==
    /\ pc = "roll"
    /\ Uprev' = U
    /\ U' = Unew
    /\ pc' = NextPc(pc)
    /\ UNCHANGED <<N, xlin, mask, Unew, t>>
    /\ UNCHANGED <<mpiVars, ompVars, ptpVars>>

SerialBoundary ==
    /\ pc = "bc"
    /\ U' = applyBoundaryConditions(U, mask, t, xlin, N)
    /\ pc' = NextPc(pc)
    /\ UNCHANGED <<N, xlin, mask, Uprev, Unew, t>>
    /\ UNCHANGED <<mpiVars, ompVars, ptpVars>>

SerialAdvance ==
    /\ pc = "advance"
    /\ t' = t + 1
    /\ pc' = NextPc(pc)
    /\ UNCHANGED <<N, xlin, mask, U, Uprev, Unew>>
    /\ UNCHANGED <<mpiVars, ompVars, ptpVars>>

NextSerial ==
    \/ SerialInitializeGrid
    \/ SerialWhile
    \/ SerialUpdate
    \/ SerialRoll
    \/ SerialBoundary
    \/ SerialAdvance

SpecSerial == InitSerial /\ [][NextSerial]_vars

----------------------------------------------------------------------------
(* Claims checked on the serial driver *)

AllEdgesWall ==
    \A i \in Rows(N) : mask[0][i] /\ mask[N - 1][i] /\ mask[i][0] /\ mask[i][N - 1]

\* C1 (as claimed): when updateLaplacian has returned, every interior
\* unmasked cell of next holds 2*current - previous + fac*laplacian(current),
\* previous being the field that was current before the last roll.
C1_StencilUsesPrevious ==
    pc = "roll" =>
        \A i \in Interior(N), j \in Interior(N) :
            ~mask[i][j] =>
                Unew[i][j] = 2 * U[i][j] - Uprev[i][j] + Fac(Laplacian(U, i, j))

\* C2 (as claimed): for every N, after initializeGrid on an all-false mask
\* every cell of row 0, row N-1, column 0 and column N-1 is wall.
C2_EdgesWallEveryN == pc # "init" => AllEdgesWall

\* C2 (amended): the same for every N other than 3; for N = 3 the first
\* slit range [5N/16, 3N/8) is [0, 1) and clears the edge cell (1, 0).
C2_EdgesWallExceptN3 ==
    pc # "init" =>
        IF N = 3
        THEN ~mask[1][0] /\ \A i \in Rows(N), j \in Rows(N) :
                 (i = 0 \/ i = N - 1 \/ j = N - 1) => mask[i][j]
        ELSE AllEdgesWall

\* a grid whose slit pass has cleared cells, with all four edges still wall
C2_Witness ==
    /\ pc # "init" /\ N >= 4 /\ AllEdgesWall
    /\ \E i \in Interior(N), j \in Interior(N) : ~mask[i][j] /\ j \in SlitCols(N)

C3_InBarrierBand(i) == N \div 4 <= i /\ i < (9 * N) \div 32
C3_InSlit(j) ==
    \/ (5 * N) \div 16 <= j /\ j < (3 * N) \div 8
    \/ (5 * N) \div 8 <= j /\ j < (11 * N) \div 16

\* C3: after initializeGrid, in every barrier row N/4 <= i < 9N/32 a cell is
\* wall exactly when its column is outside both slit ranges, and every cell
\* of rows 1..N-2 in a slit column is not wall.
C3_BarrierAndSlits ==
    pc # "init" =>
        /\ \A i \in Rows(N), j \in Rows(N) :
               C3_InBarrierBand(i) => (mask[i][j] <=> ~C3_InSlit(j))
        /\ \A i \in Rows(N), j \in Rows(N) :
               (1 <= i /\ i <= N - 2 /\ C3_InSlit(j)) => ~mask[i][j]

\* a built mask with a barrier row that has both wall cells and slit cells
C3_Witness ==
    /\ pc # "init"
    /\ \E i \in Rows(N) :
           /\ C3_InBarrierBand(i)
           /\ \E j \in Rows(N) : C3_InSlit(j) /\ ~mask[i][j]
           /\ \E j \in Interior(N) : ~C3_InSlit(j) /\ mask[i][j]

----------------------------------------------------------------------------
(* Unit tests: Project/unitTests/test_simulation.cpp, with the field and   *)
(* the time handed to applyBoundaryConditions drawn from small sets        *)
(* (the test itself uses the zero field and t = 0).  The functions of      *)
(* simulation.cpp the tests do not call (updateLaplacian, a second         *)
(* initializeGrid) and calculateLaplacian of the MPI code are applied to   *)
(* drawn fields in the same way.                                           *)

TestFields(n) ==
    { [i \in Rows(n) |-> [j \in Rows(n) |-> a + b * (i * n + j)]] :
          a \in {-1, 0, 1}, b \in {0, 1} }

\* contents of Unew before a stencil call
StaleFields(n) ==
    { [i \in Rows(n) |-> [j \in Rows(n) |-> a + b * (i * n + j)]] :
          a \in {0, 1}, b \in {0, 1} }

\* contents of Uprev before a stencil call
PreviousFields(n) ==
    { [i \in Rows(n) |-> [j \in Rows(n) |-> a]] : a \in {0, 1} }

ImpulseAmplitudes == {2, -4}

\* one nonzero value at an interior cell that initializeGrid leaves open
ImpulseFields(n) ==
    { [i \in Rows(n) |-> [j \in Rows(n) |-> IF i = p /\ j = q THEN a ELSE 0]] :
          <<p, q, a>> \in { x \in Interior(n) \X Interior(n) \X ImpulseAmplitudes :
                               ~initializeGrid(FalseMask(n, n), n)[x[1]][x[2]] } }

InitUnit ==
    /\ N \in 1 .. MaxN
    /\ xlin = [i \in Rows(N) |-> 0]
    /\ mask = FalseMask(N, N)
    /\ \/ /\ U \in TestFields(N)
          /\ Uprev = ZeroField(N, N)
          /\ Unew = ZeroField(N, N)
          /\ t \in 0 .. MaxSteps
       \/ /\ U \in TestFields(N)
          /\ Uprev \in PreviousFields(N)
          /\ Unew \in StaleFields(N)
          /\ t = 0
       \/ /\ U \in ImpulseFields(N)
          /\ Uprev = ZeroField(N, N)
          /\ Unew = ZeroField(N, N)
          /\ t = 0
    /\ pc = "test_init"
    /\ IdleMpi /\ IdleOmp /\ IdlePtp

TestInitializeGrid ==
    /\ pc = "test_init"
    /\ xlin' = Xlin(N)
    /\ mask' = initializeGrid(mask, N)
    /\ pc' = "test_bc"
    /\ UNCHANGED <<N, U, Uprev, Unew, t>>
    /\ UNCHANGED <<mpiVars, ompVars, ptpVars>>

TestApplyBoundaryConditions ==
    /\ pc = "test_bc"
    /\ U' = applyBoundaryConditions(U, mask, t, xlin, N)
    /\ pc' = "test_done"
    /\ UNCHANGED <<N, xlin, mask, Uprev, Unew, t>>
    /\ UNCHANGED <<mpiVars, ompVars, ptpVars>>

\* a second initializeGrid(U, mask, xlin) on the mask already built
TestInitializeGridAgain ==
    /\ pc = "test_bc"
    /\ xlin' = Xlin(N)
    /\ mask' = initializeGrid(mask, N)
    /\ pc' = "test_rebuilt"
    /\ UNCHANGED <<N, U, Uprev, Unew, t>>
    /\ UNCHANGED <<mpiVars, ompVars, ptpVars>>

\* updateLaplacian(U, Unew, mask, fac) of the serial code
TestUpdateLaplacian ==
    /\ pc = "test_bc"
    /\ Unew' = updateLaplacian(U, Unew, mask, N)
    /\ pc' = "test_updated"
    /\ UNCHANGED <<N, xlin, mask, U, Uprev, t>>
    /\ UNCHANGED <<mpiVars, ompVars, ptpVars>>

\* calculateLaplacian(U, Uprev, mask, Unew, fac, local_N) of the MPI code,
\* on a band of N rows
TestCalculateLaplacian ==
    /\ pc = "test_bc"
    /\ Unew' = calculateLaplacian(U, Uprev, mask, Unew, N, N)
    /\ pc' = "test_calculated"
    /\ UNCHANGED <<N, xlin, mask, U, Uprev, t>>
    /\ UNCHANGED <<mpiVars, ompVars, ptpVars>>

NextUnit ==
    \/ TestInitializeGrid
    \/ TestApplyBoundaryConditions
    \/ TestInitializeGridAgain
    \/ TestUpdateLaplacian
    \/ TestCalculateLaplacian

SpecUnit == InitUnit /\ [][NextUnit]_vars

\* C10: after applyBoundaryConditions(U, mask, t, xlin) with the mask of
\* initializeGrid, every cell of row 0 holds the source of time t and of its
\* column, every other cell of row N-1, column 0 and column N-1 is 0, and
\* with t = 0 all four edge lines are 0.
C10_BoundaryPostcondition ==
    pc = "test_done" =>
        /\ \A j \in Rows(N) : U[0][j] = SourceValue(t, xlin[j], N)
        /\ \A i \in Rows(N), j \in Rows(N) :
               (i # 0 /\ (i = N - 1 \/ j = 0 \/ j = N - 1)) => U[i][j] = 0
        /\ t = 0 => \A i \in Rows(N) :
               U[0][i] = 0 /\ U[N - 1][i] = 0 /\ U[i][0] = 0 /\ U[i][N - 1] = 0

\* a field that was nonzero everywhere (its interior still is) after the
\* call at a time with a nonzero source: row 0 is nonzero, the other edges 0
C10_Witness ==
    /\ pc = "test_done" /\ t >= 1 /\ N >= 4
    /\ \A i \in Interior(N), j \in Interior(N) : U[i][j] = 1
    /\ \A j \in Rows(N) : U[0][j] # 0
    /\ \A i \in Rows(N) \ {0} : U[i][0] = 0 /\ U[i][N - 1] = 0

----------------------------------------------------------------------------
(* MPI driver: Project/mpi/main.cpp.  The workers never communicate, so one *)
(* worker (rank of size) is followed at a time.                            *)

local_N == N \div size
start_row == rank * local_N

\* for (i = 0; i < local_N; ++i) mask[i][0] = mask[i][N-1] = true
MpiInitializeGridMask(m, rows, n) ==
    [i \in Rows(rows) |-> [j \in Rows(n) |->
        IF j = 0 \/ j = n - 1 THEN TRUE ELSE m[i][j]]]

\* U[i][0] = U[i][N-1] = 0.0, then U[i][0] = sin(20 pi t) * sin(pi xlin[i])^2
MpiApplyBoundaryConditions(u, k, xl, rows, n) ==
    [i \in Rows(rows) |-> [j \in Rows(n) |->
        IF j = 0 THEN SourceValue(k, xl[i], n)
        ELSE IF j = n - 1 THEN 0 ELSE u[i][j]]]

MpiNextPc(p) ==
    CASE p = "mpi_update" -> "mpi_roll"
      [] p = "mpi_roll" -> "mpi_bc"
      [] p = "mpi_bc" -> "mpi_advance"
      [] p = "mpi_advance" -> "mpi_while"

InitMpi ==
    /\ N \in 1 .. MaxN
    /\ size \in 1 .. MaxSize
    /\ rank \in 0 .. (size - 1)
    /\ xlin = [i \in Rows(N) |-> 0]
    /\ mask = FalseMask(local_N, N)
    /\ U = ZeroField(local_N, N)
    /\ Uprev = ZeroField(local_N, N)
    /\ Unew = ZeroField(local_N, N)
    /\ t = 0
    /\ pc = "mpi_init"
    /\ IdleOmp /\ IdlePtp

MpiInitializeGrid ==
    /\ pc = "mpi_init"
    /\ xlin' = Xlin(N)
    /\ mask' = MpiInitializeGridMask(mask, local_N, N)
    /\ pc' = "mpi_while"
    /\ UNCHANGED <<N, U, Uprev, Unew, t>>
    /\ UNCHANGED <<mpiVars, ompVars, ptpVars>>

MpiWhile ==
    /\ pc = "mpi_while"
    /\ LoopCond(t, N) => t < MaxSteps
    /\ pc' = IF LoopCond(t, N) THEN "mpi_update" ELSE "mpi_done"
    /\ UNCHANGED <<N, xlin, mask, U, Uprev, Unew, t>>
    /\ UNCHANGED <<mpiVars, ompVars, ptpVars>>

MpiCalculateLaplacian ==
    /\ pc = "mpi_update"
    /\ Unew' = calculateLaplacian(U, Uprev, mask, Unew, local_N, N)
    /\ pc' = MpiNextPc(pc)
    /\ UNCHANGED <<N, xlin, mask, U, Uprev, t>>
    /\ UNCHANGED <<mpiVars, ompVars, ptpVars>>

MpiRoll ==
    /\ pc = "mpi_roll"
    /\ Uprev' = U
    /\ U' = Unew
    /\ pc' = MpiNextPc(pc)
    /\ UNCHANGED <<N, xlin, mask, Unew, t>>
    /\ UNCHANGED <<mpiVars, ompVars, ptpVars>>

MpiBoundary ==
    /\ pc = "mpi_bc"
    /\ U' = MpiApplyBoundaryConditions(U, t, xlin, local_N, N)
    /\ pc' = MpiNextPc(pc)
    /\ UNCHANGED <<N, xlin, mask, Uprev, Unew, t>>
    /\ UNCHANGED <<mpiVars, ompVars, ptpVars>>

MpiAdvance ==
    /\ pc = "mpi_advance"
    /\ t' = t + 1
    /\ pc' = MpiNextPc(pc)
    /\ UNCHANGED <<N, xlin, mask, U, Uprev, Unew>>
    /\ UNCHANGED <<mpiVars, ompVars, ptpVars>>

NextMpi ==
    \/ MpiInitializeGrid
    \/ MpiWhile
    \/ MpiCalculateLaplacian
    \/ MpiRoll
    \/ MpiBoundary
    \/ MpiAdvance

SpecMpi == InitMpi /\ [][NextMpi]_vars

\* the mask the serial initializeGrid builds for an N x N grid
SerialMask == initializeGrid(FalseMask(N, N), N)

\* C4 (as claimed): for every worker count that divides N and every rank,
\* the local mask of the distributed initializeGrid equals the serial mask
\* restricted to the worker's global rows start_row .. start_row+local_N-1.
C4_MaskPartitionIndependent ==
    (pc # "mpi_init" /\ N % size = 0) =>
        \A i \in Rows(local_N), j \in Rows(N) :
            mask[i][j] = SerialMask[start_row + i][j]

----------------------------------------------------------------------------
(* Both drivers: the serial one and one worker of the MPI one *)

InitDrivers == InitSerial \/ InitMpi

NextDrivers ==
    \/ SerialInitializeGrid
    \/ SerialWhile
    \/ SerialUpdate
    \/ SerialRoll
    \/ SerialBoundary
    \/ SerialAdvance
    \/ MpiInitializeGrid
    \/ MpiWhile
    \/ MpiCalculateLaplacian
    \/ MpiRoll
    \/ MpiBoundary
    \/ MpiAdvance

SpecDrivers == InitDrivers /\ [][NextDrivers]_vars

EdgesCarryBoundary(k) ==
    \A i \in Rows(N), j \in Rows(N) :
        /\ i = 0 => U[i][j] = SourceValue(k, 1 + 2 * j, N)
        /\ (i # 0 /\ (i = N - 1 \/ j = 0 \/ j = N - 1)) => U[i][j] = 0

\* the MPI driver's boundary: column 0 is the source edge, column N-1 is 0
MpiEdgesCarryBoundary(k) ==
    \A i \in Rows(local_N), j \in Rows(N) :
        /\ j = 0 => U[i][j] = SourceValue(k, 1 + 2 * i, N)
        /\ (j # 0 /\ j = N - 1) => U[i][j] = 0

\* C9: in every iteration of the driver loop (serial and MPI) the stencil
\* runs first, then the roll, then the boundary conditions on the new current
\* field, then t advances: at the roll, next holds the stencil of the still
\* unrolled current field; when the boundary conditions start, current is
\* next; when t advances, the edges carry the boundary values of time t; so
\* the source written in step k is that of time (k-1)*dt and the next
\* stencil reads edges that carry it.
C9_StepOrdering ==
    /\ pc = "roll" => Unew = updateLaplacian(U, Unew, mask, N)
    /\ pc = "bc" => U = Unew
    /\ pc = "advance" => EdgesCarryBoundary(t)
    /\ (pc \in {"while", "update", "done"} /\ t >= 1) => EdgesCarryBoundary(t - 1)
    /\ pc = "mpi_roll" =>
           Unew = calculateLaplacian(U, Uprev, mask, Unew, local_N, N)
    /\ pc = "mpi_bc" => U = Unew
    /\ pc = "mpi_advance" => MpiEdgesCarryBoundary(t)
    /\ (pc \in {"mpi_while", "mpi_update", "mpi_done"} /\ t >= 1) =>
           MpiEdgesCarryBoundary(t - 1)

\* the third stencil is about to read a row 0 that holds a nonzero source
C9_Witness ==
    /\ pc = "update" /\ t >= 2 /\ N >= 3
    /\ \E j \in Rows(N) : U[0][j] # 0
    /\ EdgesCarryBoundary(t - 1)

----------------------------------------------------------------------------
(* OpenMP driver: Project/openMp/main.cpp.  main calls                     *)
(* calculateLaplacian(U, U, mask, fac): the parameters U and Unew name the *)
(* same vector, so every write of Unew[i][j] is a write of U[i][j].  Uprev *)
(* is the copy of U made on entry.  One iteration of the collapsed loop    *)
(* (its reads, then its write) is one step; with one thread the iterations *)
(* run in row-major order, with more threads in any order.  Iterations     *)
(* that overlap in time (the reads of one between the reads of another)    *)
(* are not modelled.  The while loop of one thread count is modelled,      *)
(* started from the zero field.                                            *)

\* int threads[] = {1, 32, 64, 128}
ThreadCounts == {1, 32, 64, 128}

Iterations(n) == Interior(n) \X Interior(n)

RowMajorFirst(S) ==
    CHOOSE p \in S : \A q \in S : p[1] < q[1] \/ (p[1] = q[1] /\ p[2] <= q[2])

\* Unew[i][j] = 2.0 * U[i][j] - Uprev[i][j] + fac * laplacian
OmpCell(u, uprev, i, j) == 2 * u[i][j] - uprev[i][j] + Fac(Laplacian(u, i, j))

\* one iteration (i, j) of the parallel loop, writing through Unew = U
OmpIterationResult(u, uprev, m, i, j) ==
    IF ~m[i][j]
    THEN [u EXCEPT ![i][j] = OmpCell(u, uprev, i, j)]
    ELSE u

InitOmp ==
    /\ N \in 1 .. MaxOmpN
    /\ threads \in ThreadCounts
    /\ xlin = [i \in Rows(N) |-> 0]
    /\ mask = FalseMask(N, N)
    /\ U = ZeroField(N, N)
    /\ Uprev = ZeroField(N, N)
    /\ Unew = ZeroField(N, N)
    /\ t = 0
    /\ pc = "omp_init"
    /\ pending = {}
    /\ IdleMpi /\ IdlePtp

OmpInitializeGrid ==
    /\ pc = "omp_init"
    /\ xlin' = Xlin(N)
    /\ mask' = initializeGrid(mask, N)
    /\ pc' = "omp_while"
    /\ UNCHANGED <<N, U, Uprev, Unew, t, pending, threads>>
    /\ UNCHANGED <<mpiVars, ptpVars>>

OmpWhile ==
    /\ pc = "omp_while"
    /\ LoopCond(t, N) => t < MaxOmpSteps
    /\ pc' = IF LoopCond(t, N) THEN "omp_enter" ELSE "omp_done"
    /\ UNCHANGED <<N, xlin, mask, U, Uprev, Unew, t, pending, threads>>
    /\ UNCHANGED <<mpiVars, ptpVars>>

\* std::vector<std::vector<double>> Uprev = U; the parallel region starts
OmpEnter ==
    /\ pc = "omp_enter"
    /\ Uprev' = U
    /\ pending' = Iterations(N)
    /\ pc' = "omp_loop"
    /\ UNCHANGED <<N, xlin, mask, U, Unew, t, threads>>
    /\ UNCHANGED <<mpiVars, ptpVars>>

OmpIteration ==
    /\ pc = "omp_loop"
    /\ \E p \in pending :
           /\ threads = 1 => p = RowMajorFirst(pending)
           /\ U' = OmpIterationResult(U, Uprev, mask, p[1], p[2])
           /\ pending' = pending \ {p}
    /\ UNCHANGED <<N, xlin, mask, Uprev, Unew, t, pc, threads>>
    /\ UNCHANGED <<mpiVars, ptpVars>>

\* the implicit barrier at the end of the parallel loop, then
\* applyBoundaryConditions(U, mask, t, xlin)
OmpBoundary ==
    /\ pc = "omp_loop"
    /\ pending = {}
    /\ U' = applyBoundaryConditions(U, mask, t, xlin, N)
    /\ pc' = "omp_advance"
    /\ UNCHANGED <<N, xlin, mask, Uprev, Unew, t, pending, threads>>
    /\ UNCHANGED <<mpiVars, ptpVars>>

OmpAdvance ==
    /\ pc = "omp_advance"
    /\ t' = t + 1
    /\ pc' = "omp_while"
    /\ UNCHANGED <<N, xlin, mask, U, Uprev, Unew, pending, threads>>
    /\ UNCHANGED <<mpiVars, ptpVars>>

NextOmp ==
    \/ OmpInitializeGrid
    \/ OmpWhile
    \/ OmpEnter
    \/ OmpIteration
    \/ OmpBoundary
    \/ OmpAdvance

SpecOmp == InitOmp /\ [][NextOmp]_vars

\* the pass as one thread would compute it from the field before the pass
PassFromPrePass(pre, m, n) ==
    [i \in Rows(n) |-> [j \in Rows(n) |->
        IF i \in Interior(n) /\ j \in Interior(n) /\ ~m[i][j]
        THEN 2 * pre[i][j] - pre[i][j] + Fac(Laplacian(pre, i, j))
        ELSE pre[i][j]]]

\* C8 (as claimed): no iteration of a stencil pass reads a position another
\* iteration writes, so when the pass is over the field is, whatever the
\* interleaving, the one computed from the field before the pass.
C8_PassInterleavingIndependent ==
    (pc = "omp_loop" /\ pending = {}) => U = PassFromPrePass(Uprev, mask, N)

\* every halving of the model is exact
ExactHalving ==
    /\ pc \in {"update", "mpi_update"} =>
           \A i \in DOMAIN U : \A j \in Rows(N) :
               (i \in Interior(Cardinality(DOMAIN U)) /\ j \in Interior(N))
                   => (FacNum * Laplacian(U, i, j)) % FacDen = 0
    /\ pc = "omp_loop" =>
           \A p \in pending : (FacNum * Laplacian(U, p[1], p[2])) % FacDen = 0

----------------------------------------------------------------------------
(* Halo exchange: Assignment-III/Ex3/NON_blocking_ptp.c.                   *)
(*                                                                         *)
(* Values.  f[i] = sin(L_loc*rank + (i-1)*dx) is kept as the grid position *)
(* it samples, rank*nxc + (i-1)*size in units of L/(nxc*size); position 0  *)
(* is also the value calloc leaves (sin 0 = 0).  dfdx[i] keeps the two     *)
(* samples the central difference reads.                                   *)
(* Neighbours.  Lines 38-43 declare Prevoius_rank and Next_Rank and assign *)
(* the wrap-around to prevRank and nextRank, which no call reads (and no   *)
(* line declares); the calls use Prevoius_rank and Next_Rank.              *)
(* MPI.  A call handed a rank outside 0..size-1 is erroneous: it either    *)
(* raises the error (MPI_ERRORS_ARE_FATAL: the rank's run ends) or is      *)
(* taken as the null process (MPI_PROC_NULL is -1 in some builds) and      *)
(* completes at once without moving data.  A standard-mode send completes  *)
(* when it is received or, buffered, before.                               *)

Ranks == 0 .. (size - 1)
nxn_loc == nxc \div size + 3
Cells == 0 .. (nxn_loc - 1)
ReqIds == 0 .. 3

\* the grid position f[i] of rank r is sampled at
SampleAt(r, i) == r * nxc + (i - 1) * size

\* int Prevoius_rank = rank - 1;  int Next_Rank = rank + 1;
Prevoius_rank(r) == r - 1
Next_Rank(r) == r + 1

ValidRank(p) == p \in Ranks

NoRequest == [st |-> "null", peer |-> 0]

\* the four calls in program order: kind, buffer index, peer, tag
Call(r, q) ==
    CASE q = 0 -> [kind |-> "send", buf |-> 1, peer |-> Prevoius_rank(r), tag |-> 0]
      [] q = 1 -> [kind |-> "recv", buf |-> nxn_loc - 1, peer |-> Next_Rank(r), tag |-> 0]
      [] q = 2 -> [kind |-> "send", buf |-> nxn_loc - 2, peer |-> Next_Rank(r), tag |-> 1]
      [] q = 3 -> [kind |-> "recv", buf |-> 0, peer |-> Prevoius_rank(r), tag |-> 1]

WaitallFirstTwo(r) == \A q \in {0, 1} : requests[r][q].st = "complete"
\* MPI_Waitall(4, requests, statuses) returns
WaitallReturns(r) == \A q \in ReqIds : requests[r][q].st = "complete"

InitPtp ==
    /\ size \in 1 .. MaxPtpSize
    /\ nxc \in 1 .. MaxNxc
    /\ f = [r \in Ranks |-> [i \in Cells |->
               IF 1 <= i /\ i < nxn_loc - 1 THEN SampleAt(r, i) ELSE 0]]
    /\ dfdx = [r \in Ranks |-> [i \in Cells |-> <<0, 0>>]]
    /\ requests = [r \in Ranks |-> [q \in ReqIds |-> NoRequest]]
    /\ net = {}
    /\ ppc = [r \in Ranks |-> "ranks"]
    /\ prevRank = [r \in Ranks |-> "unset"]
    /\ nextRank = [r \in Ranks |-> "unset"]
    /\ N = 0 /\ xlin = Idle /\ mask = Idle /\ U = Idle /\ Uprev = Idle
    /\ Unew = Idle /\ t = 0 /\ pc = "ptp"
    /\ rank = 0 /\ IdleOmp

PtpRest == UNCHANGED <<gridVars, size, rank, ompVars, nxc>>

\* if (rank == 0) prevRank = size - 1; else if (rank == size - 1) nextRank = 0;
PtpNeighbours(r) ==
    /\ ppc[r] = "ranks"
    /\ prevRank' = IF r = 0 THEN [prevRank EXCEPT ![r] = size - 1] ELSE prevRank
    /\ nextRank' = IF r # 0 /\ r = size - 1
                   THEN [nextRank EXCEPT ![r] = 0] ELSE nextRank
    /\ ppc' = [ppc EXCEPT ![r] = "call0"]
    /\ UNCHANGED <<f, dfdx, requests, net>>
    /\ PtpRest

CallPc(q) == CASE q = 0 -> "call0" [] q = 1 -> "call1" [] q = 2 -> "call2" [] q = 3 -> "call3"
AfterCall(q) == IF q = 3 THEN "waitall" ELSE CallPc(q + 1)

\* MPI_Isend / MPI_Irecv number q of rank r, handed a rank of the communicator
PtpPost(r, q) ==
    /\ ppc[r] = CallPc(q)
    /\ ValidRank(Call(r, q).peer)
    /\ requests' = [requests EXCEPT ![r][q] = [st |-> "pending", peer |-> Call(r, q).peer]]
    /\ net' = IF Call(r, q).kind = "send"
              THEN net \cup {[src |-> r, dst |-> Call(r, q).peer,
                              tag |-> Call(r, q).tag, val |-> f[r][Call(r, q).buf]]}
              ELSE net
    /\ ppc' = [ppc EXCEPT ![r] = AfterCall(q)]
    /\ UNCHANGED <<f, dfdx, prevRank, nextRank>>
    /\ PtpRest

\* the same call handed a rank outside the communicator, taken as the null
\* process: the request is complete, nothing is sent or received
PtpPostNull(r, q) ==
    /\ ppc[r] = CallPc(q)
    /\ ~ValidRank(Call(r, q).peer)
    /\ requests' = [requests EXCEPT ![r][q] = [st |-> "complete", peer |-> Call(r, q).peer]]
    /\ ppc' = [ppc EXCEPT ![r] = AfterCall(q)]
    /\ UNCHANGED <<f, dfdx, net, prevRank, nextRank>>
    /\ PtpRest

\* the same call raising MPI_ERR_RANK: the run of this rank ends
PtpPostError(r, q) ==
    /\ ppc[r] = CallPc(q)
    /\ ~ValidRank(Call(r, q).peer)
    /\ requests' = [requests EXCEPT ![r][q] = [st |-> "error", peer |-> Call(r, q).peer]]
    /\ ppc' = [ppc EXCEPT ![r] = "aborted"]
    /\ UNCHANGED <<f, dfdx, net, prevRank, nextRank>>
    /\ PtpRest

\* a send completes before it is received (the message is buffered)
PtpSendBuffered(r, q) ==
    /\ Call(r, q).kind = "send"
    /\ requests[r][q].st = "pending"
    /\ requests' = [requests EXCEPT ![r][q].st = "complete"]
    /\ UNCHANGED <<f, dfdx, net, ppc, prevRank, nextRank>>
    /\ PtpRest

SendRequestOf(m) == IF m.tag = 0 THEN 0 ELSE 2

\* a posted receive of rank r is matched (source and tag) with a message
PtpDeliver(r, q) ==
    /\ Call(r, q).kind = "recv"
    /\ requests[r][q].st = "pending"
    /\ \E m \in net :
           /\ m.dst = r /\ m.src = requests[r][q].peer /\ m.tag = Call(r, q).tag
           /\ f' = [f EXCEPT ![r][Call(r, q).buf] = m.val]
           /\ net' = net \ {m}
           /\ requests' = [requests EXCEPT ![r][q].st = "complete",
                                           ![m.src][SendRequestOf(m)].st = "complete"]
    /\ UNCHANGED <<dfdx, ppc, prevRank, nextRank>>
    /\ PtpRest

PtpWaitall(r) ==
    /\ ppc[r] = "waitall"
    /\ WaitallReturns(r)
    /\ ppc' = [ppc EXCEPT ![r] = "compute"]
    /\ UNCHANGED <<f, dfdx, requests, net, prevRank, nextRank>>
    /\ PtpRest

\* for (i = 1; i < nxn_loc - 1; i++) dfdx[i] = (f[i+1] - f[i-1]) / (2*dx)
PtpCompute(r) ==
    /\ ppc[r] = "compute"
    /\ dfdx' = [dfdx EXCEPT ![r] = [i \in Cells |->
                   IF 1 <= i /\ i < nxn_loc - 1 THEN <<f[r][i - 1], f[r][i + 1]>>
                   ELSE dfdx[r][i]]]
    /\ ppc' = [ppc EXCEPT ![r] = "done"]
    /\ UNCHANGED <<f, requests, net, prevRank, nextRank>>
    /\ PtpRest

NextPtp ==
    \/ \E r \in Ranks : PtpNeighbours(r)
    \/ \E r \in Ranks, q \in ReqIds : PtpPost(r, q)
    \/ \E r \in Ranks, q \in ReqIds : PtpPostNull(r, q)
    \/ \E r \in Ranks, q \in ReqIds : PtpPostError(r, q)
    \/ \E r \in Ranks, q \in ReqIds : PtpSendBuffered(r, q)
    \/ \E r \in Ranks, q \in ReqIds : PtpDeliver(r, q)
    \/ \E r \in Ranks : PtpWaitall(r)
    \/ \E r \in Ranks : PtpCompute(r)

SpecPtp == InitPtp /\ [][NextPtp]_vars

ExchangeOver(r) == ppc[r] \in {"compute", "done"}

\* the row-adjacent worker below r, with the wrap-around the claims state
Below(r) == (r + 1) % size

\* C5 (as claimed): once MPI_Waitall has returned on both sides, for every
\* pair of row-adjacent workers r and r+1 (the last and the first included:
\* with 2 workers both neighbours are the same rank), r's lower ghost
\* f[nxn_loc-1] is r+1's first owned f[1] and r+1's upper ghost f[0] is r's
\* last owned f[nxn_loc-2].
C5_HaloContent ==
    \A r \in Ranks :
        (ExchangeOver(r) /\ ExchangeOver(Below(r))) =>
            /\ f[r][nxn_loc - 1] = f[Below(r)][1]
            /\ f[Below(r)][0] = f[r][nxn_loc - 2]

\* the part of C5 the code does deliver: the pairs r, r+1 inside the chain
HaloContentInsideChain ==
    \A r \in Ranks :
        (r + 1 \in Ranks /\ ExchangeOver(r) /\ ExchangeOver(r + 1)) =>
            /\ f[r][nxn_loc - 1] = f[r + 1][1]
            /\ f[r + 1][0] = f[r][nxn_loc - 2]

HaloInsideChainReached ==
    \E r \in Ranks : r + 1 \in Ranks /\ ExchangeOver(r) /\ ExchangeOver(r + 1)

\* C6 (as claimed): no worker starts the central-difference loop before the
\* sends and receives of the exchange have completed on all workers.
C6_ExchangeIsBarrier ==
    \A r \in Ranks :
        ExchangeOver(r) =>
            \A s \in Ranks, q \in ReqIds : requests[s][q].st = "complete"

\* C6 (amended): no worker starts the central-difference loop before its own
\* two sends and two receives have completed.
C6_OwnExchangeComplete ==
    \A r \in Ranks :
        ExchangeOver(r) => \A q \in ReqIds : requests[r][q].st = "complete"

\* a worker whose two neighbours are ranks of the communicator is computing,
\* its four requests complete and both ghost cells received, while another
\* worker has not finished its exchange
C6_Witness ==
    \E r \in Ranks :
        /\ ExchangeOver(r)
        /\ ValidRank(Prevoius_rank(r)) /\ ValidRank(Next_Rank(r))
        /\ \A q \in ReqIds : requests[r][q].st = "complete"
        /\ f[r][0] = f[r - 1][nxn_loc - 2] /\ f[r][nxn_loc - 1] = f[r + 1][1]
        /\ \E s \in Ranks : ppc[s] \in {"call0", "call1", "call2", "call3", "waitall"}

\* C7 (as claimed): every rank used as destination of a send or source of a
\* receive is a rank in [0, size); rank 0 uses size-1 as its upper neighbour
\* and rank size-1 uses 0 as its lower neighbour, also when size = 1.
C7_NeighboursWrapAround ==
    \A r \in Ranks, q \in ReqIds :
        requests[r][q].st # "null" =>
            /\ requests[r][q].peer \in Ranks
            /\ (r = 0 /\ q \in {0, 3}) => requests[r][q].peer = size - 1
            /\ (r = size - 1 /\ q \in {1, 2}) => requests[r][q].peer = 0

----------------------------------------------------------------------------
(* Termination of the serial driver *)

\* k*dt >= tEnd with dt = (sqrt 2 / 2) * boxsize / (N*c), squared
C11_Reaches(k) == k * k * boxsize * boxsize >= 2 * N * N * c * c * tEnd * tEnd

\* ceil(tEnd / dt): the least number of steps k with k*dt >= tEnd
C11_CeilSteps ==
    CHOOSE k \in 0 .. (4 * N * tEnd) : C11_Reaches(k) /\ \A h \in 0 .. (k - 1) : ~C11_Reaches(h)

\* C11: the loop started at t = 0 ends after exactly ceil(tEnd/dt) steps, with
\* t >= tEnd and t - dt < tEnd; until then it never takes more steps than
\* that and is never stuck (below the step bound of the model).
C11_TerminatesAfterCeilSteps ==
    /\ t <= C11_CeilSteps
    /\ pc = "done" => /\ t = C11_CeilSteps
                      /\ C11_Reaches(t)
                      /\ ~C11_Reaches(t - 1)
    /\ pc # "done" => \/ ENABLED NextSerial
                      \/ pc = "while" /\ t = MaxSteps

\* a run of N = 2 that has ended, after its sixth step
C11_Witness == pc = "done" /\ N = 2 /\ t = 6 /\ C11_CeilSteps = 6

----------------------------------------------------------------------------
(* Band decomposition of the MPI driver *)

\* C12 (as claimed): when size does not divide N the driver stops at start-up;
\* no step is begun with a truncated band size local_N, for which
\* size * local_N < N and the global rows from size * local_N on have no owner.
C12_NonDividingSizeRejected ==
    pc \in {"mpi_update", "mpi_roll", "mpi_bc", "mpi_advance"} =>
        /\ N % size = 0
        /\ size * local_N = N

----------------------------------------------------------------------------
(* The stencil and the mask builder on drawn inputs *)

\* C13: a call of the stencil updater (updateLaplacian of the serial code,
\* calculateLaplacian of the MPI code) leaves U, Uprev and mask as they were
\* and changes Unew at most at interior cells whose mask is false: every
\* edge cell and every masked cell of Unew keeps the value it had.
C13_StencilFrame ==
    [][(pc = "test_bc" /\ pc' \in {"test_updated", "test_calculated"}) =>
          /\ U' = U /\ Uprev' = Uprev /\ mask' = mask
          /\ \A i \in Rows(N), j \in Rows(N) :
                 (i \notin Interior(N) \/ j \notin Interior(N) \/ mask[i][j])
                     => Unew'[i][j] = Unew[i][j]]_vars

\* after updateLaplacian on U = -1 and a stale Unew = 1: an open interior
\* cell was written, a masked interior cell and a corner kept the stale 1
C13_Witness ==
    /\ pc = "test_updated"
    /\ Unew[0][0] = 1
    /\ \E i \in Interior(N), j \in Interior(N) : mask[i][j] /\ Unew[i][j] = 1
    /\ \E i \in Interior(N), j \in Interior(N) : ~mask[i][j] /\ Unew[i][j] = -1

\* U is zero except for a nonzero value at the open interior cell (p, q)
ImpulseAt(p, q) ==
    /\ p \in Interior(N) /\ q \in Interior(N)
    /\ ~mask[p][q]
    /\ U[p][q] # 0
    /\ \A i \in Rows(N), j \in Rows(N) : (i # p \/ j # q) => U[i][j] = 0

Neighbours(p, q) == { <<p - 1, q>>, <<p + 1, q>>, <<p, q - 1>>, <<p, q + 1>> }

\* C14 (as claimed): after updateLaplacian on an impulse at (p, q) and a zero
\* Unew, the only nonzero cells of Unew are open interior 4-neighbours of
\* (p, q); Unew[p][q] and every cell at distance 2 or more are 0.
C14_StencilLocality ==
    pc = "test_updated" =>
        \A p \in Rows(N), q \in Rows(N) :
            ImpulseAt(p, q) =>
                \A i \in Rows(N), j \in Rows(N) :
                    Unew[i][j] # 0 =>
                        /\ <<i, j>> \in Neighbours(p, q)
                        /\ i \in Interior(N) /\ j \in Interior(N)
                        /\ ~mask[i][j]

\* what the serial stencil does with the impulse: nothing beyond the
\* 4-neighbours is touched, and the impulse cell itself holds
\* 2U - U + fac * (-4U) = -U
ImpulseUnderSerialStencil ==
    pc = "test_updated" =>
        \A p \in Rows(N), q \in Rows(N) :
            ImpulseAt(p, q) =>
                /\ Unew[p][q] = -U[p][q]
                /\ \A i \in Rows(N), j \in Rows(N) :
                       (Unew[i][j] # 0 /\ <<i, j>> # <<p, q>>) =>
                           /\ <<i, j>> \in Neighbours(p, q)
                           /\ i \in Interior(N) /\ j \in Interior(N)
                           /\ ~mask[i][j]

\* the same impulse under the MPI stencil with Uprev = 0: 2U - 0 + fac * (-4U) = 0
ImpulseUnderLeapfrogStencil ==
    pc = "test_calculated" =>
        \A p \in Rows(N), q \in Rows(N) :
            ImpulseAt(p, q) =>
                \A i \in Rows(N), j \in Rows(N) :
                    Unew[i][j] # 0 =>
                        /\ <<i, j>> \in Neighbours(p, q)
                        /\ i \in Interior(N) /\ j \in Interior(N)
                        /\ ~mask[i][j]

\* C15: initializeGrid called again on the mask it built leaves that mask
\* as it is, and the result is the mask a call on a fresh all-false mask
\* builds.
C15_MaskIdempotent ==
    [][pc' = "test_rebuilt" =>
          /\ mask' = mask
          /\ mask' = initializeGrid(FalseMask(N, N), N)]_vars

\* N = 15 after the second call: barrier row 3 is wall with its slit at
\* column 4 open, and the edges are wall
C15_Witness ==
    /\ pc = "test_rebuilt" /\ N = 15
    /\ mask[3][1] /\ mask[3][3] /\ ~mask[3][4] /\ mask[3][5]
    /\ mask[0][4] /\ mask[14][4] /\ ~mask[1][4]

\* the global rows that worker w's calculateLaplacian writes: its local rows
\* 1 .. local_N-2, which start at global row w * local_N
MpiUpdatedRows(w) == { w * local_N + i : i \in Interior(local_N) }

\* the global cells this worker's calculateLaplacian writes
MpiUpdatedCells ==
    { <<start_row + i, j>> : <<i, j>> \in
          { x \in Interior(local_N) \X Interior(N) : ~mask[x[1]][x[2]] } }

\* the cells of this worker's band that the serial updateLaplacian writes
SerialUpdatedCellsOfBand ==
    { x \in Interior(N) \X Interior(N) :
          /\ start_row <= x[1] /\ x[1] < start_row + local_N
          /\ ~SerialMask[x[1]][x[2]] }

\* every global interior row is written by exactly one worker
EveryInteriorRowUpdatedOnce ==
    \A g \in Interior(N) :
        Cardinality({ w \in 0 .. (size - 1) : g \in MpiUpdatedRows(w) }) = 1

\* C16 (as claimed): with size dividing N, a worker's local fields have
\* local_N + 2 rows (its band and two ghost rows), every global interior
\* row 1..N-2 is updated by exactly one worker in a step, and the cells a
\* worker updates are the cells of its band that the serial updater updates.
C16_DistributedCoverage ==
    (pc = "mpi_roll" /\ N % size = 0) =>
        /\ Cardinality(DOMAIN Unew) = local_N + 2
        /\ Cardinality(DOMAIN U) = local_N + 2
        /\ EveryInteriorRowUpdatedOnce
        /\ MpiUpdatedCells = SerialUpdatedCellsOfBand

\* the coverage alone, for two or more workers
CoverageOfSeveralWorkers ==
    (pc = "mpi_roll" /\ N % size = 0 /\ size >= 2) => EveryInteriorRowUpdatedOnce

\* the coverage of a single worker, whose band is the whole grid
CoverageOfOneWorker ==
    (pc = "mpi_roll" /\ size = 1) => EveryInteriorRowUpdatedOnce

----------------------------------------------------------------------------
(* Where the ghost cells of the halo exchange are sampled *)

\* the period L of the sampled function, in the units of SampleAt
Period == nxc * size

SamePoint(a, b) == (a - b) % Period = 0

\* C17 (as claimed): after the exchange f[0] is the sample one dx before
\* f[1] and f[nxn_loc-1] the sample one dx after f[nxn_loc-2], periodically,
\* so that dfdx[i] of every owned i is taken from the samples at x_i - dx
\* and x_i + dx.
C17_GhostsOneStepBeyond ==
    \A r \in Ranks :
        /\ ExchangeOver(r) =>
               /\ SamePoint(f[r][0], SampleAt(r, 1) - size)
               /\ SamePoint(f[r][nxn_loc - 1], SampleAt(r, nxn_loc - 2) + size)
        /\ ppc[r] = "done" =>
               \A i \in Cells : (1 <= i /\ i < nxn_loc - 1) =>
                   /\ SamePoint(dfdx[r][i][1], SampleAt(r, i) - size)
                   /\ SamePoint(dfdx[r][i][2], SampleAt(r, i) + size)

\* what the exchange delivers when size divides nxc: a ghost received from
\* an existing neighbour is sampled at the point of the owned node next to it
GhostRepeatsOwnedNode ==
    \A r \in Ranks :
        (ExchangeOver(r) /\ nxc % size = 0) =>
            /\ r + 1 \in Ranks => f[r][nxn_loc - 1] = f[r][nxn_loc - 2]
            /\ r - 1 \in Ranks => f[r][0] = f[r][1]

----------------------------------------------------------------------------
(* Walls of the serial driver *)

\* wall cells other than the source row 0: rows N-1, columns 0 and N-1, and
\* the masked cells
WallOffSourceRow(i, j) ==
    /\ i # 0
    /\ (mask[i][j] \/ i = N - 1 \/ j = 0 \/ j = N - 1)

\* C18: from Init on, at the end of every step of the serial driver every
\* wall cell of U outside the source row 0 is 0, and the mask is the mask
\* initializeGrid built.
C18_WallsStayZero ==
    /\ pc # "init" => mask = SerialMask
    /\ pc \in {"while", "done"} =>
           \A i \in Rows(N), j \in Rows(N) : WallOffSourceRow(i, j) => U[i][j] = 0

\* N = 11 after four steps or more: the wave has passed row 1 and entered
\* the slit (2, 3) of the barrier row, whose wall cells beside it hold 0
C18_Witness ==
    /\ pc = "while" /\ N = 11 /\ t >= 4
    /\ U[1][4] # 0 /\ U[2][3] # 0
    /\ mask[2][2] /\ U[2][2] = 0
    /\ mask[2][4] /\ U[2][4] = 0

=============================================================================
